---- MODULE Spec2Model ----
(***************************************************************************)
(* Model of textileio/go-textile-wallet: the key codec (package key), the  *)
(* two Account variants (package account) and Wallet.DeriveAccount         *)
(* (package wallet).                                                       *)
(*                                                                         *)
(* Conventions.  A Go []byte is a sequence of integers in 0..255.  A Go    *)
(* string holding a key is a sequence of one-character strings.  A Go      *)
(* error is a string: "nil" for no error, otherwise the name of the        *)
(* sentinel (or of the fmt.Errorf site) that produced it.  A nil slice is  *)
(* the empty sequence; results carry the error beside the value, as the    *)
(* Go functions do.  A panic is the field panicked = TRUE of a result.     *)
(***************************************************************************)
EXTENDS Integers, Sequences, FiniteSets, TLC

VARIABLES codec, acct, call, wallet, derived

vars == <<codec, acct, call, wallet, derived>>

(***************************************************************************)
(* Bounds of the model.                                                    *)
(***************************************************************************)
\* payload samples of the seed size: sample k is SamplePayload(k), k in 0..NumSamples-1
NumSamples == 2
\* payload lengths SeedSize-LenSlack .. SeedSize+LenSlack (and 0) are tried
LenSlack == 1

(***************************************************************************)
(* Program constants.                                                      *)
(***************************************************************************)
VersionByteAccountID == 221
VersionByteSeed == 255
\* a byte that is neither version constant (checkValidVersionByte rejects it)
VersionByteOther == 0
\* ed25519.SeedSize = ed25519.PublicKeySize = len([32]byte)
SeedSize == 32
PublicKeySize == 32
\* ed25519.PrivateKeySize, the length Verify compares len(sig) with
PrivateKeySize == 64
\* ed25519.SignatureSize
SignatureSize == 64

Byte == 0..255

ErrNil == "nil"
ErrInvalidVersionByte == "ErrInvalidVersionByte"
ErrBase58 == "base58 decode failed"
ErrTooShort == "encoded value is too short; minimum valid length is 3"
ErrInvalidChecksum == "ErrInvalidChecksum"

(***************************************************************************)
(* Byte-sequence helpers.                                                  *)
(***************************************************************************)
\* v evaluated once and named x in F: the assignment x := v
Bind(v, F(_)) == CHOOSE r \in {F(x) : x \in {v}} : TRUE

\* s[lo+1 .. hi] in TLA+ indexing: the Go slice s[lo:hi]
Slice(s, lo, hi) == SubSeq(s, lo + 1, hi)

Reverse(s) == Bind(s, LAMBDA t : [i \in 1..Len(t) |-> t[Len(t) + 1 - i]] \o <<>>)

\* number of leading elements of s equal to z
RECURSIVE CountLeading(_, _, _)
CountLeading(s, z, i) ==
    IF i > Len(s) \/ s[i] # z THEN i - 1 ELSE CountLeading(s, z, i + 1)

(***************************************************************************)
(* crc16 (package crc16 of this repository): CRC16-XModem, polynomial      *)
(* 0x1021, initial value 0, checksum written little-endian.                *)
(***************************************************************************)
CRCPoly == 4129

RECURSIVE Xor(_, _)
Xor(a, b) ==
    IF a = 0 THEN b
    ELSE IF b = 0 THEN a
    ELSE (((a % 2) + (b % 2)) % 2) + 2 * Xor(a \div 2, b \div 2)

RECURSIVE CrcShift(_, _)
CrcShift(crc, n) ==
    IF n = 0 THEN crc
    ELSE CrcShift(IF crc >= 32768 THEN Xor((crc * 2) % 65536, CRCPoly)
                                  ELSE crc * 2, n - 1)

\* the table of the table-driven implementation: entry b is the CRC of byte b
crc16tab == [b \in Byte |-> CrcShift(b * 256, 8)]

CrcUpdate(crc, b) == Xor((crc * 256) % 65536, crc16tab[Xor(crc \div 256, b)])

\* the CRC after data[lo..hi], starting from crc (the loop over the bytes,
\* split in halves, the left half evaluated first)
RECURSIVE CrcRange(_, _, _, _)
CrcRange(crc, data, lo, hi) ==
    IF lo > hi THEN crc
    ELSE IF lo = hi THEN CrcUpdate(crc, data[lo])
    ELSE Bind(CrcRange(crc, data, lo, (lo + hi) \div 2), LAMBDA c :
             CrcRange(c, data, ((lo + hi) \div 2) + 1, hi))

\* crc16.Checksum: the two checksum bytes of data, low byte first
Checksum(data) ==
    Bind(data, LAMBDA d :
    Bind(CrcRange(0, d, 1, Len(d)), LAMBDA crc : <<crc % 256, crc \div 256>>))

\* crc16.Validate: nil when expected is the checksum of data
Validate(data, expected) ==
    IF Checksum(data) = expected THEN ErrNil ELSE ErrInvalidChecksum

(***************************************************************************)
(* base58 (github.com/mr-tron/base58): the bitcoin alphabet; the bytes are *)
(* one big-endian number written in base 58, each leading zero byte        *)
(* written as the alphabet's first character.                              *)
(***************************************************************************)
Alphabet ==
    << "1", "2", "3", "4", "5", "6", "7", "8", "9",
       "A", "B", "C", "D", "E", "F", "G", "H", "J", "K", "L", "M", "N",
       "P", "Q", "R", "S", "T", "U", "V", "W", "X", "Y", "Z",
       "a", "b", "c", "d", "e", "f", "g", "h", "i", "j", "k", "m", "n",
       "o", "p", "q", "r", "s", "t", "u", "v", "w", "x", "y", "z" >>

AlphabetChars == {Alphabet[i] : i \in 1..Len(Alphabet)}

\* alphabet.decode[r]: the digit a character stands for
DigitOf(c) == (CHOOSE i \in 1..Len(Alphabet) : Alphabet[i] = c) - 1

\* the little-endian digits of n in base b
RECURSIVE Digits(_, _)
Digits(n, b) == IF n = 0 THEN <<>> ELSE <<n % b>> \o Digits(n \div b, b)

\* one pass of d*m + carry over the digits d[lo..hi] (little-endian, base b):
\* st = [out, carry] holds the digits written so far and the running carry
RECURSIVE MulAddRange(_, _, _, _, _, _)
MulAddRange(st, d, m, b, lo, hi) ==
    IF lo > hi THEN st
    ELSE IF lo = hi
    THEN Bind((d[lo] * m) + st.carry, LAMBDA t :
             [out |-> Append(st.out, t % b), carry |-> t \div b])
    ELSE Bind(MulAddRange(st, d, m, b, lo, (lo + hi) \div 2), LAMBDA l :
             MulAddRange(l, d, m, b, ((lo + hi) \div 2) + 1, hi))

\* d is a number as little-endian digits in base b; the digits of d*m + c
MulAdd(d, m, c, b) ==
    Bind(MulAddRange([out |-> <<>>, carry |-> c], d, m, b, 1, Len(d)), LAMBDA st :
        st.out \o Digits(st.carry, b))

\* the number acc (little-endian digits, base `to`) after the digits
\* s[lo..hi] of base `from`, most significant first, are folded into it
RECURSIVE Convert(_, _, _, _, _, _)
Convert(acc, s, lo, hi, from, to) ==
    IF lo > hi THEN acc
    ELSE IF lo = hi THEN MulAdd(acc, from, s[lo], to)
    ELSE Bind(Convert(acc, s, lo, (lo + hi) \div 2, from, to), LAMBDA l :
             Convert(l, s, ((lo + hi) \div 2) + 1, hi, from, to))

\* base58.FastBase58Encoding
FastBase58Encoding(bin) ==
    Bind(bin, LAMBDA b :
    Bind(CountLeading(b, 0, 1), LAMBDA zcount :
    Bind(Reverse(Convert(<<>>, b, zcount + 1, Len(b), 256, 58)), LAMBDA digits :
        [i \in 1..zcount |-> Alphabet[1]]
        \o [i \in 1..Len(digits) |-> Alphabet[digits[i] + 1]])))

\* base58.FastBase58Decoding: [raw, err]
FastBase58Decoding(str) ==
    Bind(str, LAMBDA s :
    IF Len(s) = 0 \/ \E i \in 1..Len(s) : s[i] \notin AlphabetChars
    THEN [raw |-> <<>>, err |-> ErrBase58]
    ELSE Bind(CountLeading(s, Alphabet[1], 1), LAMBDA zcount :
         Bind([i \in 1..Len(s) |-> DigitOf(s[i])] \o <<>>, LAMBDA ds :
         Bind(Reverse(Convert(<<>>, ds, zcount + 1, Len(s), 58, 256)), LAMBDA bytes :
             [raw |-> [i \in 1..zcount |-> 0] \o bytes, err |-> ErrNil]))))

(***************************************************************************)
(* package key                                                             *)
(***************************************************************************)
checkValidVersionByte(version) ==
    IF version = VersionByteAccountID THEN ErrNil
    ELSE IF version = VersionByteSeed THEN ErrNil
    ELSE ErrInvalidVersionByte

\* decodeString: [raw, err]
decodeString(src) ==
    Bind(FastBase58Decoding(src), LAMBDA d :
    IF d.err # ErrNil THEN [raw |-> <<>>, err |-> ErrBase58]
    ELSE IF Len(d.raw) < 3 THEN [raw |-> <<>>, err |-> ErrTooShort]
    ELSE [raw |-> d.raw, err |-> ErrNil])

\* Decode with the payload slice ending one byte early
DecodeShortPayload(expected, src) ==
    IF checkValidVersionByte(expected) # ErrNil
    THEN [payload |-> <<>>, err |-> checkValidVersionByte(expected)]
    ELSE Bind(decodeString(src), LAMBDA d :
         IF d.err # ErrNil THEN [payload |-> <<>>, err |-> d.err]
         ELSE Bind(d.raw, LAMBDA raw :
              Bind(Validate(Slice(raw, 0, Len(raw) - 2),
                            Slice(raw, Len(raw) - 2, Len(raw))), LAMBDA verr :
                  IF raw[1] # expected
                  THEN [payload |-> <<>>, err |-> ErrInvalidVersionByte]
                  ELSE IF verr # ErrNil
                  THEN [payload |-> <<>>, err |-> verr]
                  ELSE [payload |-> Slice(raw, 1, Len(raw) - 3), err |-> ErrNil])))

\* Decode with the checksum validated before the version byte is compared
DecodeChecksumFirst(expected, src) ==
    IF checkValidVersionByte(expected) # ErrNil
    THEN [payload |-> <<>>, err |-> checkValidVersionByte(expected)]
    ELSE Bind(decodeString(src), LAMBDA d :
         IF d.err # ErrNil THEN [payload |-> <<>>, err |-> d.err]
         ELSE Bind(d.raw, LAMBDA raw :
              Bind(Validate(Slice(raw, 0, Len(raw) - 2),
                            Slice(raw, Len(raw) - 2, Len(raw))), LAMBDA verr :
                  IF verr # ErrNil
                  THEN [payload |-> <<>>, err |-> verr]
                  ELSE IF raw[1] # expected
                  THEN [payload |-> <<>>, err |-> ErrInvalidVersionByte]
                  ELSE [payload |-> Slice(raw, 1, Len(raw) - 2), err |-> ErrNil])))

\* Decode: [payload, err]
Decode(expected, src) ==
    IF checkValidVersionByte(expected) # ErrNil
    THEN [payload |-> <<>>, err |-> checkValidVersionByte(expected)]
    ELSE Bind(decodeString(src), LAMBDA d :
         IF d.err # ErrNil THEN [payload |-> <<>>, err |-> d.err]
         ELSE Bind(d.raw, LAMBDA raw :
              LET version == raw[1]
                  vp == Slice(raw, 0, Len(raw) - 2)
                  payload == Slice(raw, 1, Len(raw) - 2)
                  checksum == Slice(raw, Len(raw) - 2, Len(raw))
              IN  IF version # expected
                  THEN [payload |-> <<>>, err |-> ErrInvalidVersionByte]
                  ELSE Bind(Validate(vp, checksum), LAMBDA verr :
                       IF verr # ErrNil
                       THEN [payload |-> <<>>, err |-> verr]
                       ELSE [payload |-> payload, err |-> ErrNil])))

\* Encode: [result, err]
Encode(version, src) ==
    IF checkValidVersionByte(version) # ErrNil
    THEN [result |-> <<>>, err |-> checkValidVersionByte(version)]
    ELSE Bind(<<version>> \o src, LAMBDA raw :
         Bind(Checksum(raw), LAMBDA checksum :
             [result |-> FastBase58Encoding(raw \o checksum), err |-> ErrNil]))

\* MustDecode, MustEncode: the value, or a panic on error
MustDecode(expected, src) ==
    Bind(Decode(expected, src), LAMBDA d :
        [value |-> d.payload, panicked |-> d.err # ErrNil])

MustEncode(version, src) ==
    Bind(Encode(version, src), LAMBDA e :
        [value |-> e.result, panicked |-> e.err # ErrNil])

(***************************************************************************)
(* External primitives the accounts call.  Each is a deterministic         *)
(* stand-in with the primitive's interface: its length checks and failure  *)
(* cases are the library's, its byte values are not.                       *)
(***************************************************************************)
ErrInvalidSignature == "ErrInvalidSignature"
ErrNoSeed == "ErrNoSeed"
ErrCannotSign == "ErrCannotSign"
ErrCannotDecrypt == "ErrCannotDecrypt"
ErrShortRead == "unexpected EOF"
ErrPubKeySize == "expect ed25519 public key data size to be 32"
ErrPrivKeySize == "expected ed25519 data size to be 64 or 96"
ErrDecryptFailed == "decryption failed"

\* Go's copy(dst, src): the bytes of src over the front of dst
Copy(dst, src) ==
    Bind(dst, LAMBDA d :
    Bind(src, LAMBDA s :
        IF Len(s) >= Len(d) THEN SubSeq(s, 1, Len(d))
        ELSE s \o SubSeq(d, Len(s) + 1, Len(d))))

Zeros(n) == [i \in 1..n |-> 0] \o <<>>

\* the public key of a 32-byte seed
ed25519_Public(seed) ==
    Bind(seed, LAMBDA s :
        [i \in 1..PublicKeySize |->
            ((s[PublicKeySize + 1 - i] * 5) + (3 * i) + 1) % 256] \o <<>>)

\* ed25519.GenerateKey(reader): reads SeedSize bytes or fails; the private
\* key is the seed followed by the public key
ed25519_GenerateKey(reader) ==
    Bind(reader, LAMBDA rd :
    IF Len(rd) < SeedSize
    THEN [pub |-> <<>>, priv |-> <<>>, err |-> ErrShortRead]
    ELSE Bind(Slice(rd, 0, SeedSize), LAMBDA seed :
         Bind(ed25519_Public(seed), LAMBDA pub :
             [pub |-> pub, priv |-> seed \o pub, err |-> ErrNil])))

\* the one signature of input that verifies under pub
SignatureOf(pub, input) ==
    Bind(pub, LAMBDA p :
    Bind(input, LAMBDA in :
        [i \in 1..SignatureSize |->
            IF i <= PublicKeySize THEN (p[i] + 1) % 256
            ELSE (p[i - PublicKeySize] + Len(in)
                    + (IF Len(in) > 0 THEN in[1] ELSE 0)) % 256] \o <<>>))

\* ed25519.Sign(priv, input)
ed25519_Sign(priv, input) ==
    SignatureOf(Slice(priv, PrivateKeySize - PublicKeySize, PrivateKeySize), input)

\* ed25519.Verify(pub, input, sig)
ed25519_Verify(pub, input, sig) ==
    Len(sig) = SignatureSize /\ sig = SignatureOf(pub, input)

\* libp2pc.UnmarshalEd25519PublicKey(data)
UnmarshalEd25519PublicKey(data) ==
    IF Len(data) # PublicKeySize
    THEN [key |-> <<>>, err |-> ErrPubKeySize]
    ELSE [key |-> data, err |-> ErrNil]

\* libp2pc.UnmarshalEd25519PrivateKey(data)
UnmarshalEd25519PrivateKey(data) ==
    Bind(data, LAMBDA d :
    IF Len(d) = PrivateKeySize THEN [key |-> d, err |-> ErrNil]
    ELSE IF Len(d) = PrivateKeySize + PublicKeySize
            /\ Slice(d, PrivateKeySize - PublicKeySize, PrivateKeySize)
                 = Slice(d, PrivateKeySize, Len(d))
    THEN [key |-> Slice(d, 0, PrivateKeySize), err |-> ErrNil]
    ELSE [key |-> <<>>, err |-> ErrPrivKeySize])

\* peer.IDFromPublicKey(pub): the identity multihash of the marshalled key
IDFromPublicKey(pub) ==
    [value |-> <<0, 36, 8, 1, 18, 32>> \o pub, err |-> ErrNil]

\* crypto.Encrypt(pub, input): a ciphertext only the holder of pub opens
crypto_Encrypt(pub, input) ==
    Bind(pub, LAMBDA p :
    Bind(input, LAMBDA in :
        [value |-> p \o [i \in 1..Len(in) |->
                            (in[i] + p[((i - 1) % PublicKeySize) + 1]) % 256],
         err |-> ErrNil]))

\* crypto.Decrypt(priv, input)
crypto_Decrypt(priv, input) ==
    Bind(Slice(priv, PrivateKeySize - PublicKeySize, PrivateKeySize), LAMBDA pub :
    Bind(input, LAMBDA in :
        IF Len(in) < PublicKeySize \/ Slice(in, 0, PublicKeySize) # pub
        THEN [value |-> <<>>, err |-> ErrDecryptFailed]
        ELSE [value |-> [i \in 1..(Len(in) - PublicKeySize) |->
                            (in[PublicKeySize + i] + 256
                               - pub[((i - 1) % PublicKeySize) + 1]) % 256] \o <<>>,
              err |-> ErrNil]))

(***************************************************************************)
(* package account.  A method's result is [kp, value, err, panicked,       *)
(* verifyCalled]: kp is the receiver after the call, verifyCalled whether  *)
(* ed25519.Verify was reached.                                             *)
(***************************************************************************)
Ret(kp, value, err) ==
    [kp |-> kp, value |-> value, err |-> err, panicked |-> FALSE,
     verifyCalled |-> FALSE]

Panic(kp) ==
    [kp |-> kp, value |-> <<>>, err |-> ErrNil, panicked |-> TRUE,
     verifyCalled |-> FALSE]

\* the outcome of ed25519.Verify as the accounts report it
Verified(kp, ok) ==
    [kp |-> kp, value |-> <<>>,
     err |-> IF ok THEN ErrNil ELSE ErrInvalidSignature,
     panicked |-> FALSE, verifyCalled |-> TRUE]

(* ------------------------------ Full ---------------------------------- *)
Full_rawSeed(kp) == MustDecode(VersionByteSeed, kp.seed)

\* keys: [pub, priv, panicked]
Full_keys(kp) ==
    Bind(Full_rawSeed(kp), LAMBDA raw :
    IF raw.panicked THEN [pub |-> <<>>, priv |-> <<>>, panicked |-> TRUE]
    ELSE Bind(ed25519_GenerateKey(raw.value), LAMBDA g :
         IF g.err # ErrNil THEN [pub |-> <<>>, priv |-> <<>>, panicked |-> TRUE]
         ELSE [pub |-> g.pub, priv |-> g.priv, panicked |-> FALSE]))

\* publicKey: [value, panicked]
Full_publicKey(kp) ==
    Bind(Full_keys(kp), LAMBDA k : [value |-> k.pub, panicked |-> k.panicked])

\* Address that keeps the encoded address in the receiver's string field
Full_AddressStored(kp) ==
    Bind(Full_publicKey(kp), LAMBDA pub :
    IF pub.panicked THEN Panic(kp)
    ELSE Bind(MustEncode(VersionByteAccountID, pub.value), LAMBDA e :
         IF e.panicked THEN Panic(kp)
         ELSE Ret([kp EXCEPT !.seed = e.value], e.value, ErrNil)))

Full_Address(kp) ==
    Bind(Full_publicKey(kp), LAMBDA pub :
    IF pub.panicked THEN Panic(kp)
    ELSE Bind(MustEncode(VersionByteAccountID, pub.value), LAMBDA e :
         IF e.panicked THEN Panic(kp) ELSE Ret(kp, e.value, ErrNil)))

Full_Hint(kp) ==
    Bind(Full_publicKey(kp), LAMBDA pub :
    IF pub.panicked THEN Panic(kp)
    ELSE Ret(kp, Copy(Zeros(4), Slice(pub.value, 28, Len(pub.value))), ErrNil))

Full_Seed(kp) == Ret(kp, kp.seed, ErrNil)

Full_LibP2PPubKey(kp) ==
    Bind(Full_publicKey(kp), LAMBDA pub :
    IF pub.panicked THEN Panic(kp)
    ELSE Bind(UnmarshalEd25519PublicKey(pub.value), LAMBDA pk :
         IF pk.err # ErrNil THEN Ret(kp, <<>>, pk.err)
         ELSE Ret(kp, pk.key, ErrNil)))

Full_ID(kp) ==
    Bind(Full_LibP2PPubKey(kp), LAMBDA pub :
    IF pub.panicked THEN Panic(kp)
    ELSE IF pub.err # ErrNil THEN Ret(kp, <<>>, ErrNil)
    ELSE Bind(IDFromPublicKey(pub.value), LAMBDA id : Ret(kp, id.value, id.err)))

Full_LibP2PPrivKey(kp) ==
    Bind(Full_rawSeed(kp), LAMBDA raw :
    IF raw.panicked THEN Panic(kp)
    ELSE Bind(Full_publicKey(kp), LAMBDA pub :
         IF pub.panicked THEN Panic(kp)
         ELSE Bind(Copy(Zeros(PrivateKeySize), raw.value), LAMBDA buf0 :
              Bind(Slice(buf0, 0, PrivateKeySize - PublicKeySize)
                     \o Copy(Slice(buf0, PrivateKeySize - PublicKeySize,
                                   PrivateKeySize), pub.value), LAMBDA buf :
              Bind(UnmarshalEd25519PrivateKey(buf), LAMBDA sk :
                  IF sk.err # ErrNil THEN Ret(kp, <<>>, sk.err)
                  ELSE Ret(kp, sk.key, ErrNil))))))

\* Verify without the length check: the signature is copied into the
\* 64-byte array and handed to the primitive whatever its length
Full_VerifyUnchecked(kp, input, sig) ==
    Bind(Copy(Zeros(PrivateKeySize), sig), LAMBDA asig :
    Bind(Full_publicKey(kp), LAMBDA pub :
        IF pub.panicked THEN Panic(kp)
        ELSE Verified(kp, ed25519_Verify(pub.value, input, asig))))

Full_Verify(kp, input, sig) ==
    IF Len(sig) # PrivateKeySize THEN Ret(kp, <<>>, ErrInvalidSignature)
    ELSE Bind(Copy(Zeros(PrivateKeySize), sig), LAMBDA asig :
         Bind(Full_publicKey(kp), LAMBDA pub :
             IF pub.panicked THEN Panic(kp)
             ELSE Verified(kp, ed25519_Verify(pub.value, input, asig))))

Full_Sign(kp, input) ==
    Bind(Full_keys(kp), LAMBDA k :
    IF k.panicked THEN Panic(kp)
    ELSE Ret(kp, ed25519_Sign(k.priv, input), ErrNil))

Full_Encrypt(kp, input) ==
    Bind(Full_LibP2PPubKey(kp), LAMBDA pub :
    IF pub.panicked THEN Panic(kp)
    ELSE IF pub.err # ErrNil THEN Ret(kp, <<>>, pub.err)
    ELSE Bind(crypto_Encrypt(pub.value, input), LAMBDA c : Ret(kp, c.value, c.err)))

Full_Decrypt(kp, input) ==
    Bind(Full_LibP2PPrivKey(kp), LAMBDA priv :
    IF priv.panicked THEN Panic(kp)
    ELSE IF priv.err # ErrNil THEN Ret(kp, <<>>, priv.err)
    ELSE Bind(crypto_Decrypt(priv.value, input), LAMBDA m : Ret(kp, m.value, m.err)))

(* --------------------------- FromAddress ------------------------------ *)
\* publicKey: [value, panicked]
FromAddress_publicKey(kp) ==
    Bind(MustDecode(VersionByteAccountID, kp.address), LAMBDA bytes :
    IF bytes.panicked THEN [value |-> <<>>, panicked |-> TRUE]
    ELSE [value |-> Copy(Zeros(PublicKeySize), bytes.value), panicked |-> FALSE])

FromAddress_Address(kp) == Ret(kp, kp.address, ErrNil)

\* Hint taken from the front of the public key
FromAddress_HintLeading(kp) ==
    Bind(FromAddress_publicKey(kp), LAMBDA pub :
    IF pub.panicked THEN Panic(kp)
    ELSE Ret(kp, Copy(Zeros(4), Slice(pub.value, 0, 4)), ErrNil))

FromAddress_Hint(kp) ==
    Bind(FromAddress_publicKey(kp), LAMBDA pub :
    IF pub.panicked THEN Panic(kp)
    ELSE Ret(kp, Copy(Zeros(4), Slice(pub.value, 28, Len(pub.value))), ErrNil))

FromAddress_Seed(kp) == Ret(kp, <<>>, ErrNoSeed)

FromAddress_LibP2PPrivKey(kp) == Ret(kp, <<>>, ErrCannotSign)

FromAddress_LibP2PPubKey(kp) ==
    Bind(FromAddress_publicKey(kp), LAMBDA pub :
    IF pub.panicked THEN Panic(kp)
    ELSE Bind(UnmarshalEd25519PublicKey(pub.value), LAMBDA pk :
         IF pk.err # ErrNil THEN Ret(kp, <<>>, pk.err)
         ELSE Ret(kp, pk.key, ErrNil)))

FromAddress_ID(kp) ==
    Bind(FromAddress_LibP2PPubKey(kp), LAMBDA pub :
    IF pub.panicked THEN Panic(kp)
    ELSE IF pub.err # ErrNil THEN Ret(kp, <<>>, ErrNil)
    ELSE Bind(IDFromPublicKey(pub.value), LAMBDA id : Ret(kp, id.value, id.err)))

FromAddress_Verify(kp, input, sig) ==
    IF Len(sig) # PrivateKeySize THEN Ret(kp, <<>>, ErrInvalidSignature)
    ELSE Bind(Copy(Zeros(PrivateKeySize), sig), LAMBDA asig :
         Bind(FromAddress_publicKey(kp), LAMBDA pub :
             IF pub.panicked THEN Panic(kp)
             ELSE Verified(kp, ed25519_Verify(pub.value, input, asig))))

FromAddress_Sign(kp, input) == Ret(kp, <<>>, ErrCannotSign)

FromAddress_Encrypt(kp, input) ==
    Bind(FromAddress_LibP2PPubKey(kp), LAMBDA pub :
    IF pub.panicked THEN Panic(kp)
    ELSE IF pub.err # ErrNil THEN Ret(kp, <<>>, pub.err)
    ELSE Bind(crypto_Encrypt(pub.value, input), LAMBDA c : Ret(kp, c.value, c.err)))

\* Decrypt refusing with the signing error
FromAddress_DecryptAsSign(kp, input) == Ret(kp, <<>>, ErrCannotSign)

FromAddress_Decrypt(kp, input) == Ret(kp, <<>>, ErrCannotDecrypt)

(* ---------------------------- constructors ---------------------------- *)
\* Parse that falls through to the seed attempt after any first error
ParseFallThrough(addressOrSeed) ==
    Bind(Decode(VersionByteAccountID, addressOrSeed), LAMBDA first :
    IF first.err = ErrNil
    THEN [kind |-> "FromAddress", key |-> addressOrSeed, err |-> ErrNil,
          seedTried |-> FALSE]
    ELSE Bind(Decode(VersionByteSeed, addressOrSeed), LAMBDA second :
         IF second.err = ErrNil
         THEN [kind |-> "Full", key |-> addressOrSeed, err |-> ErrNil,
               seedTried |-> TRUE]
         ELSE [kind |-> "none", key |-> <<>>, err |-> second.err,
               seedTried |-> TRUE]))

\* Parse that tells the variant apart by which attempt ran, the wrong way round
ParseSwapped(addressOrSeed) ==
    Bind(Decode(VersionByteAccountID, addressOrSeed), LAMBDA first :
    IF first.err = ErrNil
    THEN [kind |-> "Full", key |-> addressOrSeed, err |-> ErrNil,
          seedTried |-> FALSE]
    ELSE IF first.err # ErrInvalidVersionByte
    THEN [kind |-> "none", key |-> <<>>, err |-> first.err, seedTried |-> FALSE]
    ELSE Bind(Decode(VersionByteSeed, addressOrSeed), LAMBDA second :
         IF second.err = ErrNil
         THEN [kind |-> "FromAddress", key |-> addressOrSeed, err |-> ErrNil,
               seedTried |-> TRUE]
         ELSE [kind |-> "none", key |-> <<>>, err |-> second.err,
               seedTried |-> TRUE]))

\* Parse: [kind, key, err, seedTried]; kind "none" is the nil Account,
\* seedTried whether the decode under the seed tag was attempted
Parse(addressOrSeed) ==
    Bind(Decode(VersionByteAccountID, addressOrSeed), LAMBDA first :
    IF first.err = ErrNil
    THEN [kind |-> "FromAddress", key |-> addressOrSeed, err |-> ErrNil,
          seedTried |-> FALSE]
    ELSE IF first.err # ErrInvalidVersionByte
    THEN [kind |-> "none", key |-> <<>>, err |-> first.err, seedTried |-> FALSE]
    ELSE Bind(Decode(VersionByteSeed, addressOrSeed), LAMBDA second :
         IF second.err = ErrNil
         THEN [kind |-> "Full", key |-> addressOrSeed, err |-> ErrNil,
               seedTried |-> TRUE]
         ELSE [kind |-> "none", key |-> <<>>, err |-> second.err,
               seedTried |-> TRUE]))

\* FromRawSeed(rawSeed [32]byte): [kind, key, err]
FromRawSeed(rawSeed) ==
    Bind(Encode(VersionByteSeed, rawSeed), LAMBDA e :
    IF e.err # ErrNil THEN [kind |-> "none", key |-> <<>>, err |-> e.err]
    ELSE [kind |-> "Full", key |-> e.result, err |-> ErrNil])

\* Random: rand.Reader fills the seed (read = the bytes it gave, ok = whether
\* the read succeeded); [kind, key, panicked]
Random(read, ok) ==
    IF ~ok THEN [kind |-> "none", key |-> <<>>, panicked |-> TRUE]
    ELSE Bind(FromRawSeed(read), LAMBDA kp :
         IF kp.err # ErrNil THEN [kind |-> "none", key |-> <<>>, panicked |-> TRUE]
         ELSE [kind |-> kp.kind, key |-> kp.key, panicked |-> FALSE])

(***************************************************************************)
(* Inputs of the codec: payload samples and damaged key strings.           *)
(***************************************************************************)
SamplePayload(k, n) == [i \in 1..n |-> (k * (i + 6) * 37) % 256] \o <<>>

PayloadLengths == {0} \cup ((SeedSize - LenSlack)..(SeedSize + LenSlack))

Payloads == {SamplePayload(k, n) : k \in 0..(NumSamples - 1), n \in PayloadLengths}

Seeds == {SamplePayload(k, SeedSize) : k \in 0..(NumSamples - 1)}

Versions == {VersionByteAccountID, VersionByteSeed, VersionByteOther}

ValidVersions == {VersionByteAccountID, VersionByteSeed}

\* another character of the alphabet than c
OtherChar(c) == Alphabet[((DigitOf(c) + 1) % Len(Alphabet)) + 1]

TamperKinds == {"truncate", "short", "first", "last", "invalid"}

\* a key string damaged in transcription
Tamper(str, kind) ==
    CASE kind = "no"       -> str
      [] kind = "truncate" -> Slice(str, 0, Len(str) - 1)
      [] kind = "short"    -> Slice(str, 0, 2)
      [] kind = "first"    -> <<OtherChar(str[1])>> \o Slice(str, 1, Len(str))
      [] kind = "last"     -> Slice(str, 0, Len(str) - 1)
                                \o <<OtherChar(str[Len(str)])>>
      [] kind = "invalid"  -> Slice(str, 0, Len(str) - 1) \o <<"0">>

(***************************************************************************)
(* The codec exercised: a version and a payload are encoded, the string is *)
(* possibly damaged, and it is decoded under an expected version.          *)
(***************************************************************************)
NoCodec ==
    [stage |-> "idle", version |-> VersionByteOther, src |-> <<>>, str |-> <<>>,
     encErr |-> ErrNil, tampered |-> "no", expected |-> VersionByteOther,
     payload |-> <<>>, err |-> ErrNil]

NoAcct ==
    [kind |-> "none", kp |-> <<>>, how |-> "none", kp0 |-> <<>>,
     addr0 |-> <<>>, seed0 |-> <<>>, from |-> <<>>]

NoOrigin == [tag |-> VersionByteOther, tampered |-> "no", src |-> <<>>]

NoCall ==
    [op |-> "none", input |-> <<>>, sig |-> <<>>, value |-> <<>>,
     err |-> ErrNil, panicked |-> FALSE, verifyCalled |-> FALSE,
     seedTried |-> FALSE, kind |-> "none", origin |-> NoOrigin]

NoWallet == [made |-> FALSE, phrase |-> "", err |-> ErrNil, intSize |-> 0]

InitCodec ==
    /\ \E v \in Versions, p \in Payloads :
          codec = [NoCodec EXCEPT !.stage = "input", !.version = v, !.src = p]
    /\ acct = NoAcct
    /\ call = NoCall
    /\ wallet = NoWallet
    /\ derived = <<>>

DoEncode ==
    /\ codec.stage = "input"
    /\ \E e \in {Encode(codec.version, codec.src)} :
          codec' = [codec EXCEPT !.stage = "encoded", !.str = e.result,
                                 !.encErr = e.err]
    /\ UNCHANGED <<acct, call, wallet, derived>>

DoTamper(kind) ==
    /\ codec.stage = "encoded"
    /\ codec.tampered = "no"
    /\ Len(codec.str) > 2
    /\ \E str \in {Tamper(codec.str, kind)} :
          codec' = [codec EXCEPT !.str = str, !.tampered = kind]
    /\ UNCHANGED <<acct, call, wallet, derived>>

DoDecode(expected) ==
    /\ codec.stage = "encoded"
    /\ \E d \in {Decode(expected, codec.str)} :
          codec' = [codec EXCEPT !.stage = "decoded", !.expected = expected,
                                 !.payload = d.payload, !.err = d.err]
    /\ UNCHANGED <<acct, call, wallet, derived>>

NextCodec ==
    \/ DoEncode
    \/ \E kind \in TamperKinds : DoTamper(kind)
    \/ \E expected \in Versions : DoDecode(expected)

SpecCodec == InitCodec /\ [][NextCodec]_vars

(***************************************************************************)
(* The accounts exercised: one account is constructed (Parse, FromRawSeed, *)
(* Random, or the struct literal the package's tests use) and the methods  *)
(* of the Account interface are called on it in any order.  The methods    *)
(* take no lock and are modelled as single steps; calls from several       *)
(* goroutines are the interleavings of these steps.                        *)
(***************************************************************************)
\* strings handed to Parse: keys of both tags, intact and damaged, and ""
ParsePayloads ==
    Seeds \cup {Zeros(n) : n \in PayloadLengths \ {SeedSize}}

KeyInput(v, p, kind) ==
    Bind(Encode(v, p).result, LAMBDA e :
        [str |-> IF Len(e) > 2 THEN Tamper(e, kind) ELSE e,
         origin |-> [tag |-> v, tampered |-> kind, src |-> p]])

ParseInputs ==
    {KeyInput(v, p, k) : v \in ValidVersions, p \in ParsePayloads,
                         k \in {"no"} \cup TamperKinds}
    \cup {[str |-> <<>>, origin |-> NoOrigin]}

\* the address strings a FromAddress literal is built from: a valid address
\* and a damaged one
LiteralAddresses ==
    Bind(Encode(VersionByteAccountID,
                ed25519_Public(SamplePayload(0, SeedSize))).result, LAMBDA address :
        {address, Tamper(address, "last")})

Message == <<7, 8, 9>>

Messages == {Message}

SigInputs ==
    {Zeros(n) : n \in {0} \cup ((SignatureSize - LenSlack)..(SignatureSize + LenSlack))}
    \cup {SignatureOf(ed25519_Public(s), m) : s \in Seeds, m \in Messages}

CipherInputs ==
    {<<>>} \cup {crypto_Encrypt(ed25519_Public(s), m).value : s \in Seeds, m \in Messages}

\* the struct behind an Account value
Struct(kind, key) ==
    IF kind = "Full" THEN [seed |-> key] ELSE [address |-> key]

\* dispatch through the Account interface
Account_Address(a) ==
    IF a.kind = "Full" THEN Full_Address(a.kp) ELSE FromAddress_Address(a.kp)
Account_Seed(a) ==
    IF a.kind = "Full" THEN Full_Seed(a.kp) ELSE FromAddress_Seed(a.kp)
Account_Hint(a) ==
    IF a.kind = "Full" THEN Full_Hint(a.kp) ELSE FromAddress_Hint(a.kp)
Account_ID(a) ==
    IF a.kind = "Full" THEN Full_ID(a.kp) ELSE FromAddress_ID(a.kp)
Account_LibP2PPubKey(a) ==
    IF a.kind = "Full" THEN Full_LibP2PPubKey(a.kp)
    ELSE FromAddress_LibP2PPubKey(a.kp)
Account_LibP2PPrivKey(a) ==
    IF a.kind = "Full" THEN Full_LibP2PPrivKey(a.kp)
    ELSE FromAddress_LibP2PPrivKey(a.kp)
Account_Verify(a, input, sig) ==
    IF a.kind = "Full" THEN Full_Verify(a.kp, input, sig)
    ELSE FromAddress_Verify(a.kp, input, sig)
Account_Sign(a, input) ==
    IF a.kind = "Full" THEN Full_Sign(a.kp, input)
    ELSE FromAddress_Sign(a.kp, input)
Account_Encrypt(a, input) ==
    IF a.kind = "Full" THEN Full_Encrypt(a.kp, input)
    ELSE FromAddress_Encrypt(a.kp, input)
Account_Decrypt(a, input) ==
    IF a.kind = "Full" THEN Full_Decrypt(a.kp, input)
    ELSE FromAddress_Decrypt(a.kp, input)

\* what a caller sees of a result
Seen(r) == [value |-> r.value, err |-> r.err, panicked |-> r.panicked]

\* the account as constructed, with what Address() and Seed() return on it
\* immediately after construction
Constructed(kind, key, how) ==
    Bind([kind |-> kind, kp |-> Struct(kind, key)], LAMBDA a :
    Bind(Account_Address(a), LAMBDA address :
        [kind |-> kind, kp |-> a.kp, how |-> how, kp0 |-> a.kp,
         addr0 |-> Seen(address), seed0 |-> Seen(Account_Seed(a)),
         from |-> <<>>]))

Init ==
    /\ codec = NoCodec
    /\ acct = NoAcct
    /\ call = NoCall
    /\ wallet = NoWallet
    /\ derived = <<>>

DoParse(in) ==
    /\ call.op = "none"
    /\ \E r \in {Parse(in.str)} :
           /\ call' = [NoCall EXCEPT !.op = "Parse", !.input = in.str,
                                     !.err = r.err, !.kind = r.kind,
                                     !.seedTried = r.seedTried,
                                     !.origin = in.origin]
           /\ acct' = IF r.err = ErrNil THEN Constructed(r.kind, r.key, "Parse")
                      ELSE acct
    /\ UNCHANGED <<codec, wallet, derived>>

DoFromRawSeed(rawSeed) ==
    /\ call.op = "none"
    /\ \E r \in {FromRawSeed(rawSeed)} :
           /\ call' = [NoCall EXCEPT !.op = "FromRawSeed", !.input = rawSeed,
                                     !.err = r.err, !.kind = r.kind]
           /\ acct' = IF r.err = ErrNil
                      THEN Constructed(r.kind, r.key, "FromRawSeed") ELSE acct
    /\ UNCHANGED <<codec, wallet, derived>>

DoRandom(read, ok) ==
    /\ call.op = "none"
    /\ \E r \in {Random(read, ok)} :
           /\ call' = [NoCall EXCEPT !.op = "Random", !.panicked = r.panicked,
                                     !.kind = r.kind]
           /\ acct' = IF ~r.panicked THEN Constructed(r.kind, r.key, "Random")
                      ELSE acct
    /\ UNCHANGED <<codec, wallet, derived>>

\* &FromAddress{address}, as in from_address_test.go
DoLiteral(address) ==
    /\ call.op = "none"
    /\ call' = [NoCall EXCEPT !.op = "literal", !.input = address,
                              !.kind = "FromAddress"]
    /\ acct' = Constructed("FromAddress", address, "literal")
    /\ UNCHANGED <<codec, wallet, derived>>

\* a method call on the account: the call is recorded and the receiver is
\* left as the method left it
Invoke(op, input, sig, result) ==
    /\ \E r \in {result} :
          /\ call' = [NoCall EXCEPT !.op = op, !.input = input, !.sig = sig,
                                    !.value = r.value, !.err = r.err,
                                    !.panicked = r.panicked,
                                    !.verifyCalled = r.verifyCalled,
                                    !.kind = acct.kind]
          /\ acct' = [acct EXCEPT !.kp = r.kp]
    /\ UNCHANGED <<codec, wallet, derived>>

DoAddress ==
    acct.kind # "none" /\ Invoke("Address", <<>>, <<>>, Account_Address(acct))
DoSeed ==
    acct.kind # "none" /\ Invoke("Seed", <<>>, <<>>, Account_Seed(acct))
DoHint ==
    acct.kind # "none" /\ Invoke("Hint", <<>>, <<>>, Account_Hint(acct))
DoID ==
    acct.kind # "none" /\ Invoke("ID", <<>>, <<>>, Account_ID(acct))
DoLibP2PPubKey ==
    acct.kind # "none"
    /\ Invoke("LibP2PPubKey", <<>>, <<>>, Account_LibP2PPubKey(acct))
DoLibP2PPrivKey ==
    acct.kind # "none"
    /\ Invoke("LibP2PPrivKey", <<>>, <<>>, Account_LibP2PPrivKey(acct))
DoVerify(input, sig) ==
    acct.kind # "none"
    /\ Invoke("Verify", input, sig, Account_Verify(acct, input, sig))
DoSign(input) ==
    acct.kind # "none" /\ Invoke("Sign", input, <<>>, Account_Sign(acct, input))
DoEncrypt(input) ==
    acct.kind # "none"
    /\ Invoke("Encrypt", input, <<>>, Account_Encrypt(acct, input))
DoDecrypt(input) ==
    acct.kind # "none"
    /\ Invoke("Decrypt", input, <<>>, Account_Decrypt(acct, input))

Next ==
    \/ \E in \in ParseInputs : DoParse(in)
    \/ \E rawSeed \in Seeds : DoFromRawSeed(rawSeed)
    \/ \E read \in Seeds, ok \in BOOLEAN : DoRandom(read, ok)
    \/ \E address \in LiteralAddresses : DoLiteral(address)
    \/ DoAddress
    \/ DoSeed
    \/ DoHint
    \/ DoID
    \/ DoLibP2PPubKey
    \/ DoLibP2PPrivKey
    \/ \E input \in Messages, sig \in SigInputs : DoVerify(input, sig)
    \/ \E input \in Messages : DoSign(input)
    \/ \E input \in Messages : DoEncrypt(input)
    \/ \E input \in CipherInputs : DoDecrypt(input)

Spec == Init /\ [][Next]_vars

(***************************************************************************)
(* The accounts exercised with one more step: the string a Full account's  *)
(* Address() returned is handed to Parse, and the account Parse returns    *)
(* takes the place of the first one, which it remembers in its field from. *)
(***************************************************************************)
DoParseAddress ==
    /\ acct.kind = "Full"
    /\ call.op = "Address"
    /\ ~call.panicked
    /\ \E r \in {Parse(call.value)} :
           /\ call' = [NoCall EXCEPT !.op = "Parse", !.input = call.value,
                                     !.err = r.err, !.kind = r.kind,
                                     !.seedTried = r.seedTried]
           /\ acct' = IF r.err = ErrNil
                      THEN [Constructed(r.kind, r.key, "Parse") EXCEPT
                              !.from = [kind |-> acct.kind, kp |-> acct.kp,
                                        how |-> acct.how]]
                      ELSE acct
    /\ UNCHANGED <<codec, wallet, derived>>

NextIdentity ==
    \/ Next
    \/ DoParseAddress

SpecIdentity == Init /\ [][NextIdentity]_vars

(***************************************************************************)
(* Claims about the codec, stated for the behaviours of SpecCodec.         *)
(***************************************************************************)
CodecRoundTripCase ==
    /\ codec.tampered = "no"
    /\ codec.version \in ValidVersions
    /\ Len(codec.src) = SeedSize

\* C1: for every 32-byte payload p and both version tags t, Encode(t, p)
\* succeeds, and Decode(t, Encode(t, p)) succeeds and returns exactly p.
C1_RoundTrip ==
    /\ (codec.stage \in {"encoded", "decoded"} /\ CodecRoundTripCase)
          => codec.encErr = ErrNil
    /\ (codec.stage = "decoded" /\ CodecRoundTripCase
            /\ codec.expected = codec.version)
          => (codec.err = ErrNil /\ codec.payload = codec.src)

C1_Witness ==
    /\ codec.stage = "decoded"
    /\ codec.tampered = "no"
    /\ codec.version = VersionByteSeed
    /\ codec.expected = VersionByteSeed
    /\ codec.src = SamplePayload(1, SeedSize)
    /\ codec.payload = codec.src
    /\ codec.err = ErrNil

C5_PayloadIs32Bytes ==
    /\ (codec.stage = "decoded" /\ codec.err = ErrNil)
          => Len(codec.payload) = SeedSize
    /\ (codec.stage \in {"encoded", "decoded"} /\ codec.encErr = ErrNil)
          => Len(codec.src) = SeedSize

(***************************************************************************)
(* Claims about the accounts, stated for the behaviours of Spec.           *)
(***************************************************************************)
\* the leading raw byte of a key string, or -1 when it has none
LeadingByte(str) ==
    Bind(FastBase58Decoding(str), LAMBDA d :
        IF d.err = ErrNil /\ Len(d.raw) > 0 THEN d.raw[1] ELSE -1)

\* C3: Parse returns a FromAddress account only for a string whose leading
\* raw byte is the AccountID tag and a Full account only for one whose
\* leading raw byte is the Seed tag; a string encoded with tag Seed never
\* yields a FromAddress account, one encoded with tag AccountID never a Full.
C3_VersionDiscrimination ==
    call.op = "Parse" =>
        /\ call.kind = "FromAddress" => LeadingByte(call.input) = VersionByteAccountID
        /\ call.kind = "Full" => LeadingByte(call.input) = VersionByteSeed
        /\ (call.origin.tampered = "no" /\ call.origin.tag = VersionByteSeed)
              => call.kind # "FromAddress"
        /\ (call.origin.tampered = "no" /\ call.origin.tag = VersionByteAccountID)
              => call.kind # "Full"

C3_Witness ==
    /\ call.op = "Parse"
    /\ call.origin.tampered = "no"
    /\ call.origin.tag = VersionByteSeed
    /\ call.origin.src = SamplePayload(1, SeedSize)
    /\ call.kind = "Full"
    /\ call.err = ErrNil
    /\ acct.kind = "Full"

EightOps ==
    {"Address", "Seed", "Hint", "ID", "Verify", "Sign", "Encrypt", "Decrypt"}

CapabilityErrors == {ErrCannotSign, ErrCannotDecrypt, ErrNoSeed}

\* C4: on a Full account, however it was constructed (Parse on any string
\* it accepts as a seed, Random, FromRawSeed), none of the eight operations
\* address, seed, hint, peer identity, verify, sign, encrypt and decrypt
\* panics or returns a capability error.
C4_FullOperationsSucceed ==
    (call.kind = "Full" /\ call.op \in EightOps) =>
        /\ ~call.panicked
        /\ call.err \notin CapabilityErrors

\* C6: on a FromAddress account Sign fails with ErrCannotSign, Decrypt with
\* ErrCannotDecrypt, Seed with ErrNoSeed and LibP2PPrivKey with an error,
\* each returning nothing, for every input; LibP2PPubKey succeeds when the
\* account holds a valid address.
C6_AddressOnlyCapabilities ==
    call.kind = "FromAddress" =>
        /\ call.op = "Sign" =>
              (call.err = ErrCannotSign /\ call.value = <<>> /\ ~call.panicked)
        /\ call.op = "Decrypt" =>
              (call.err = ErrCannotDecrypt /\ call.value = <<>> /\ ~call.panicked)
        /\ call.op = "Seed" =>
              (call.err = ErrNoSeed /\ call.value = <<>> /\ ~call.panicked)
        /\ call.op = "LibP2PPrivKey" =>
              (call.err # ErrNil /\ call.value = <<>> /\ ~call.panicked)
        /\ (call.op = "LibP2PPubKey"
              /\ Decode(VersionByteAccountID, acct.kp.address).err = ErrNil)
              => (call.err = ErrNil /\ ~call.panicked
                    /\ Len(call.value) = PublicKeySize)

C6_Witness ==
    /\ call.kind = "FromAddress"
    /\ acct.how = "Parse"
    /\ call.op = "Decrypt"
    /\ call.input # <<>>
    /\ call.err = ErrCannotDecrypt
    /\ call.value = <<>>

\* C7: Parse(s) returns an error and no account when s decodes under
\* neither tag; when the decode under AccountID fails with an error other
\* than ErrInvalidVersionByte, Parse returns that error and the decode under
\* Seed is not attempted; when the first attempt fails with
\* ErrInvalidVersionByte and the Seed attempt fails too, Parse returns the
\* Seed attempt's error.
C7_ParseErrors ==
    call.op = "Parse" =>
        \A first \in {Decode(VersionByteAccountID, call.input)},
           second \in {Decode(VersionByteSeed, call.input)} :
            /\ (first.err # ErrNil /\ second.err # ErrNil)
                  => (call.err # ErrNil /\ call.kind = "none" /\ acct = NoAcct)
            /\ first.err \notin {ErrNil, ErrInvalidVersionByte}
                  => (call.err = first.err /\ ~call.seedTried)
            /\ (first.err = ErrInvalidVersionByte /\ second.err # ErrNil)
                  => (call.err = second.err /\ call.seedTried)

\* an address whose last character was mistyped is refused for its checksum,
\* not for the version byte the seed attempt would report
C7_Witness ==
    /\ call.op = "Parse"
    /\ call.origin.tag = VersionByteAccountID
    /\ call.origin.tampered = "last"
    /\ Len(call.origin.src) = SeedSize
    /\ call.err = ErrInvalidChecksum
    /\ Decode(VersionByteSeed, call.input).err = ErrInvalidVersionByte
    /\ ~call.seedTried
    /\ acct = NoAcct

\* C8: on both variants Verify with a signature whose length is not the
\* ed25519 signature size returns ErrInvalidSignature and ed25519.Verify is
\* not called; only signatures of exactly that size reach the primitive.
C8_VerifyLengthCheck ==
    call.op = "Verify" =>
        /\ Len(call.sig) # SignatureSize
              => (call.err = ErrInvalidSignature /\ ~call.verifyCalled
                    /\ ~call.panicked)
        /\ call.verifyCalled => Len(call.sig) = SignatureSize

C8_Witness ==
    /\ call.op = "Verify"
    /\ call.kind = "Full"
    /\ Len(call.sig) = SignatureSize + 1
    /\ call.err = ErrInvalidSignature
    /\ ~call.verifyCalled

\* C10: after any sequence of Account operations on a Full or FromAddress
\* account the stored key string is the one it was constructed with, and
\* Address() and Seed() return what they returned immediately after
\* construction.
C10_Immutable ==
    acct.kind # "none" =>
        /\ acct.kp = acct.kp0
        /\ Seen(Account_Address(acct)) = acct.addr0
        /\ Seen(Account_Seed(acct)) = acct.seed0
        /\ call.op = "Address" => Seen(call) = acct.addr0
        /\ call.op = "Seed" => Seen(call) = acct.seed0

C10_Witness ==
    /\ acct.kind = "Full"
    /\ acct.how = "FromRawSeed"
    /\ call.op = "Address"
    /\ ~call.panicked
    /\ call.value # <<>>
    /\ call.value = acct.addr0.value
    /\ acct.kp = acct.kp0

(***************************************************************************)
(* package wallet.  A Go int is written as four 16-bit limbs, most         *)
(* significant first, in two's complement and sign-extended to 64 bits; a  *)
(* uint32 is two limbs.  IntSizes are the widths the Go specification      *)
(* allows an int to have; the build fixes one of them.                     *)
(***************************************************************************)
TwelveWords == 12
FifteenWords == 15
EighteenWords == 18
TwentyOneWords == 21
TwentyFourWords == 24

ErrInvalidWordCount == "invalid word count (must be 12, 15, 18, 21, or 24)"
ErrInvalidMnemonicPhrase == "invalid mnemonic phrase"
ErrChecksumIncorrect == "bip39.ErrChecksumIncorrect"
ErrEntropyLengthInvalid == "bip39.ErrEntropyLengthInvalid"
ErrInvalidMnemonic == "bip39.ErrInvalidMnemonic"
ErrNonHardenedIndex == "NonHardenedIndexRejected"

IntSizes == {32, 64}

\* NewWordCount: [wc, err]
NewWordCount(count) ==
    CASE count = 12 -> [wc |-> TwelveWords, err |-> ErrNil]
      [] count = 15 -> [wc |-> FifteenWords, err |-> ErrNil]
      [] count = 18 -> [wc |-> EighteenWords, err |-> ErrNil]
      [] count = 21 -> [wc |-> TwentyOneWords, err |-> ErrNil]
      [] count = 24 -> [wc |-> TwentyFourWords, err |-> ErrNil]
      [] OTHER -> [wc |-> 0, err |-> ErrInvalidWordCount]

\* WordCount.EntropySize
EntropySize(w) ==
    CASE w = TwelveWords -> 128
      [] w = FifteenWords -> 160
      [] w = EighteenWords -> 192
      [] w = TwentyOneWords -> 224
      [] w = TwentyFourWords -> 256
      [] OTHER -> 256

\* bip39.NewEntropy followed by bip39.NewMnemonic: a phrase that validates,
\* or the error for a bit size that is no multiple of 32 in 128..256
bip39_NewMnemonic(entropySize) ==
    IF entropySize % 32 # 0 \/ entropySize < 128 \/ entropySize > 256
    THEN [mnemonic |-> "", err |-> ErrEntropyLengthInvalid]
    ELSE [mnemonic |-> "generated", err |-> ErrNil]

\* FromEntropy: [made, phrase, err]
FromEntropy(entropySize) ==
    Bind(bip39_NewMnemonic(entropySize), LAMBDA m :
        IF m.err # ErrNil THEN [made |-> FALSE, phrase |-> "", err |-> m.err]
        ELSE [made |-> TRUE, phrase |-> m.mnemonic, err |-> ErrNil])

\* FromWordCount: [made, phrase, err]
FromWordCount(wordCount) ==
    Bind(NewWordCount(wordCount), LAMBDA wcount :
        IF wcount.err # ErrNil
        THEN [made |-> FALSE, phrase |-> "", err |-> wcount.err]
        ELSE FromEntropy(EntropySize(wcount.wc)))

\* FromMnemonic: the phrase is stored unvalidated
FromMnemonic(mnemonic) == [made |-> TRUE, phrase |-> mnemonic, err |-> ErrNil]

\* bip39.NewSeedWithErrorChecking(mnemonic, passphrase): the seed of a
\* phrase that validates, named by the pair it was stretched from
bip39_NewSeedWithErrorChecking(mnemonic, passphrase) ==
    CASE mnemonic = "unknown words" -> [seed |-> <<>>, err |-> ErrInvalidMnemonic]
      [] mnemonic = "bad checksum" -> [seed |-> <<>>, err |-> ErrChecksumIncorrect]
      [] OTHER -> [seed |-> <<mnemonic, passphrase>>, err |-> ErrNil]

\* uint32(index): the low 32 bits of an int
Uint32(index) == <<index[3], index[4]>>

\* a + b in uint32 arithmetic, which wraps
Add32(a, b) ==
    <<(a[1] + b[1] + ((a[2] + b[2]) \div 65536)) % 65536, (a[2] + b[2]) % 65536>>

\* 2^31, the smallest hardened index
FirstHardenedIndex == <<32768, 0>>

IsHardened(i) == i[1] >= FirstHardenedIndex[1]

\* the account-purpose path under which every account is derived
TextileAccountPrefix == <<Add32(FirstHardenedIndex, <<0, 44>>),
                          Add32(FirstHardenedIndex, <<0, 406>>)>>

\* Key.Derive(i): the child ChainKey, a function of the parent and the
\* index; a non-hardened index is rejected
Derive(parent, i) ==
    IF ~IsHardened(i) THEN [key |-> parent, err |-> ErrNonHardenedIndex]
    ELSE [key |-> [seed |-> parent.seed, path |-> Append(parent.path, i)],
          err |-> ErrNil]

\* DeriveForPath(path, seed): the master ChainKey of seed, then one Derive
\* per segment of path
RECURSIVE DeriveSegments(_, _, _)
DeriveSegments(k, path, n) ==
    IF n > Len(path) \/ k.err # ErrNil THEN k
    ELSE Bind(Derive(k.key, path[n]), LAMBDA next : DeriveSegments(next, path, n + 1))

DeriveForPath(path, seed) ==
    DeriveSegments([key |-> [seed |-> seed, path |-> <<>>], err |-> ErrNil], path, 1)

\* Key.RawSeed(): the 32 bytes of key material, here the bytes of what the
\* key was derived from (the phrase and passphrase, then the last segment)
RawSeed(k) ==
    Bind(k.path[Len(k.path)], LAMBDA i :
        Copy(Zeros(SeedSize),
             << IF k.seed[1] = "generated" THEN 1 ELSE 2,
                IF k.seed[2] = "" THEN 0 ELSE 1,
                i[1] \div 256, i[1] % 256, i[2] \div 256, i[2] % 256 >>))

\* the outcome of a DeriveAccount: derived says whether the last segment was
\* computed, segment is that segment, account the *account.Full returned
Derivation(index, passphrase, derivedAt, segment, err, account) ==
    [index |-> index, passphrase |-> passphrase, derived |-> derivedAt,
     segment |-> segment, err |-> err, account |-> account]

\* Wallet.DeriveAccount(index, passphrase)
DeriveAccount(w, index, passphrase) ==
    Bind(bip39_NewSeedWithErrorChecking(w.phrase, passphrase), LAMBDA s :
    IF s.err # ErrNil
    THEN Derivation(index, passphrase, FALSE, <<>>,
                    IF s.err = ErrInvalidMnemonic THEN ErrInvalidMnemonicPhrase
                    ELSE s.err, <<>>)
    ELSE Bind(DeriveForPath(TextileAccountPrefix, s.seed), LAMBDA masterKey :
         IF masterKey.err # ErrNil
         THEN Derivation(index, passphrase, FALSE, <<>>, masterKey.err, <<>>)
         ELSE Bind(Add32(FirstHardenedIndex, Uint32(index)), LAMBDA segment :
              Bind(Derive(masterKey.key, segment), LAMBDA k :
              IF k.err # ErrNil
              THEN Derivation(index, passphrase, TRUE, segment, k.err, <<>>)
              ELSE Bind(FromRawSeed(RawSeed(k.key)), LAMBDA a :
                   Derivation(index, passphrase, TRUE, segment, a.err, a.key))))))

(***************************************************************************)
(* The wallet exercised: a wallet is created (FromWordCount, FromEntropy   *)
(* or FromMnemonic) and accounts are derived from it; derived holds the    *)
(* outcomes of the two most recent DeriveAccount calls.                    *)
(***************************************************************************)
\* index samples: the ints IndexSpread above each of 0, 2^31 - 1, 2^32 and -1
IndexSpread == 1

IndexBases ==
    { <<0, 0, 0, 0>>, <<0, 0, 32767, 65535>>, <<0, 1, 0, 0>>,
      <<65535, 65535, 65535, 65535>> }

\* index + k for a small k >= 0, in 64-bit arithmetic
AddSmall(index, k) ==
    Bind(index[4] + k, LAMBDA l0 :
    Bind(index[3] + (l0 \div 65536), LAMBDA l1 :
    Bind(index[2] + (l1 \div 65536), LAMBDA l2 :
        <<(index[1] + (l2 \div 65536)) % 65536, l2 % 65536, l1 % 65536,
          l0 % 65536>>)))

Indices == {AddSmall(b, k) : b \in IndexBases, k \in 0..IndexSpread}

IsNonNegative(index) == index[1] < 32768

\* whether an int of the given width holds the index
FitsInt(index, size) ==
    \/ size = 64
    \/ index[1] = 0 /\ index[2] = 0 /\ index[3] < 32768
    \/ index[1] = 65535 /\ index[2] = 65535 /\ index[3] >= 32768

WordCounts == {TwelveWords, FifteenWords, EighteenWords, TwentyOneWords,
               TwentyFourWords, TwelveWords + 1}

EntropySizes == {EntropySize(TwelveWords), EntropySize(TwentyFourWords),
                 EntropySize(TwelveWords) - 1}

Mnemonics == {"valid phrase", "unknown words", "bad checksum"}

Passphrases == {"", "passphrase"}

InitWallet ==
    /\ codec = NoCodec
    /\ acct = NoAcct
    /\ call = NoCall
    /\ \E size \in IntSizes : wallet = [NoWallet EXCEPT !.intSize = size]
    /\ derived = <<>>

\* the wallet a constructor returned, or its error
Created(w) == [wallet EXCEPT !.made = w.made, !.phrase = w.phrase, !.err = w.err]

DoFromWordCount(wordCount) ==
    /\ ~wallet.made /\ wallet.err = ErrNil
    /\ wallet' = Created(FromWordCount(wordCount))
    /\ UNCHANGED <<codec, acct, call, derived>>

DoFromEntropy(entropySize) ==
    /\ ~wallet.made /\ wallet.err = ErrNil
    /\ wallet' = Created(FromEntropy(entropySize))
    /\ UNCHANGED <<codec, acct, call, derived>>

DoFromMnemonic(mnemonic) ==
    /\ ~wallet.made /\ wallet.err = ErrNil
    /\ wallet' = Created(FromMnemonic(mnemonic))
    /\ UNCHANGED <<codec, acct, call, derived>>

DoDeriveAccount(index, passphrase) ==
    /\ wallet.made
    /\ FitsInt(index, wallet.intSize)
    /\ \E d \in {DeriveAccount(wallet, index, passphrase)} :
          derived' = IF Len(derived) = 0 THEN <<d>>
                     ELSE <<derived[Len(derived)], d>>
    /\ UNCHANGED <<codec, acct, call, wallet>>

NextWallet ==
    \/ \E wordCount \in WordCounts : DoFromWordCount(wordCount)
    \/ \E entropySize \in EntropySizes : DoFromEntropy(entropySize)
    \/ \E mnemonic \in Mnemonics : DoFromMnemonic(mnemonic)
    \/ \E index \in Indices, passphrase \in Passphrases :
          DoDeriveAccount(index, passphrase)

SpecWallet == InitWallet /\ [][NextWallet]_vars

(***************************************************************************)
(* Claims about the wallet, stated for the behaviours of SpecWallet.       *)
(***************************************************************************)
\* C9: for two distinct account indices for which derivation was attempted
\* the last path segments FirstHardenedIndex + uint32(index) differ, so the
\* two indices never derive the same account seed from one phrase and
\* passphrase; and for every non-negative index the segment is hardened.
C9_SegmentUniqueAndHardened ==
    /\ \A m, n \in 1..Len(derived) :
          (derived[m].derived /\ derived[n].derived
              /\ derived[m].index # derived[n].index)
          => /\ derived[m].segment # derived[n].segment
             /\ (derived[m].err = ErrNil /\ derived[n].err = ErrNil
                    /\ derived[m].passphrase = derived[n].passphrase)
                  => derived[m].account # derived[n].account
    /\ \A n \in 1..Len(derived) :
          (derived[n].derived /\ IsNonNegative(derived[n].index))
          => IsHardened(derived[n].segment)

(***************************************************************************)
(* Claims about two accounts of one key, stated for the behaviours of      *)
(* SpecIdentity.                                                           *)
(***************************************************************************)
\* C11: for a Full account a made by FromRawSeed from a 32-byte seed,
\* Parse(a.Address()) succeeds and returns a FromAddress account b with
\* b.Address() = a.Address() and b.Hint() = a.Hint().
C11_PublicIdentity ==
    \* a failed Parse leaves the account made by FromRawSeed in place
    /\ (call.op = "Parse" /\ acct.how = "FromRawSeed") => call.err = ErrNil
    /\ (acct.from # <<>> /\ acct.from.how = "FromRawSeed") =>
          /\ acct.kind = "FromAddress"
          /\ Seen(Account_Address(acct)) = Seen(Account_Address(acct.from))
          /\ Seen(Account_Hint(acct)) = Seen(Account_Hint(acct.from))
          /\ ~Account_Hint(acct).panicked
          /\ call.op = "Parse" => (call.err = ErrNil /\ call.kind = "FromAddress")
          /\ call.op = "Address" => Seen(call) = Seen(Account_Address(acct.from))
          /\ call.op = "Hint" => Seen(call) = Seen(Account_Hint(acct.from))

C11_Witness ==
    /\ acct.kind = "FromAddress"
    /\ acct.from # <<>>
    /\ acct.from.kind = "Full"
    /\ acct.from.how = "FromRawSeed"
    /\ acct.from.kp = [seed |-> Encode(VersionByteSeed,
                                       SamplePayload(1, SeedSize)).result]
    /\ call.op = "Hint"
    /\ ~call.panicked
    /\ Len(call.value) = 4
    /\ call.value = Account_Hint(acct.from).value

====
